---- MODULE Spec2Model ----
(***************************************************************************)
(* The neo4j quickstart pipeline of open-pulse-quickstart:                 *)
(*   Neo4JDownloader -> neo4j_to_dataframe -> df_to_pydantic_models        *)
(* The graph builder folds flat rows into GraphData (users, orgs, repos);  *)
(* the flattener turns extracted node lists and edge arrays into rows.     *)
(***************************************************************************)
EXTENDS Integers, Sequences, FiniteSets, TLC

VARIABLES
  graph,          \* df_to_pydantic_models: the GraphData being built
  rows,           \* the rows of df folded so far
  calls,          \* the add_user / add_org / add_repo calls issued so far
  pc,             \* "loop", "done" (returned) or "raised"
  exc,            \* the exception df_to_pydantic_models raised, or "none"
  nodes_ids,      \* neo4j_to_dataframe: type -> list of node ids
  nodes_features, \* type -> list of feature records
  edges_indices,  \* <<kind, variant>> -> edge array, the entries read so far
  node_lookup,    \* type -> id -> feature record
  df,             \* the rows appended so far
  vi,             \* position of the loop in the schema
  fpc,            \* "idle", "start", "loop", "done" (returned) or "raised"
  fexc,           \* the exception neo4j_to_dataframe raised, or "none"
  seed_nodes,     \* visualize_graph: the seed_nodes set passed
  discovered,     \* visualize_graph: the discovered_nodes mapping, in dict order
  rcall,          \* the renderer entry point called, or "none"
  rpc,            \* "idle", "render", "cluster", "returned" or "raised"
  G,              \* the digraph create_networkx_graph made
  components,     \* visualize_clusters: the components in rendering order
  ci,             \* visualize_clusters: 1-based position of the loop
  files,          \* the image files on disk: path -> what was drawn
  dir_made,       \* whether output_dir.mkdir ran
  rlog,           \* the levels of the records the renderer logged, in order
  rexc,           \* the exception the renderer raised, or "none"
  dpc,            \* Neo4JDownloader: position of retrieve_nodes / retrieve_edges
  di,             \* 1-based position of the loop over node types / variants
  open_sessions,  \* the driver sessions open now
  opened,         \* the number of sessions opened so far
  queries,        \* the queries run so far, with their outcome
  dlog,           \* the logging.error calls so far
  dexc,           \* the exception the downloader raised, or "none"
  ids_by_node,    \* retrieve_nodes: ids, type -> ids, the entries stored so far
  feats_by_node,  \* retrieve_nodes: feats, type -> feature records
  edges_index,    \* retrieve_edges: <<kind, variant>> -> edge records
  dret,           \* what the retrieve call returned, or "none"
  apc,            \* ossinsight quickstart: "idle", "main", "done" or "failed"
  ai,             \* position of the main script in its list of fetches
  http,           \* the HTTP GETs issued so far, with the status received
  results,        \* the data the fetch functions returned so far
  aexc,           \* the exception the last fetch raised, or "none"
  xpc,            \* extract_data: "idle", "try", "returned" or "raised"
  driver_closed,  \* the number of driver.close() calls of extract_data's downloader
  xret            \* the value extract_data returned, if it returned

bvars == <<graph, rows, calls, pc, exc>>
fvars == <<nodes_ids, nodes_features, edges_indices, node_lookup, df, vi, fpc, fexc>>
rvars == <<seed_nodes, discovered, rcall, rpc, G, components, ci, files, dir_made, rlog, rexc>>
dvars == <<dpc, di, open_sessions, opened, queries, dlog, dexc, ids_by_node, feats_by_node, edges_index, dret>>
avars == <<apc, ai, http, results, aexc>>
xvars == <<xpc, driver_closed, xret>>
vars == <<graph, rows, calls, pc, exc,
          nodes_ids, nodes_features, edges_indices, node_lookup, df, vi, fpc, fexc,
          seed_nodes, discovered, rcall, rpc, G, components, ci, files, dir_made, rlog, rexc,
          dpc, di, open_sessions, opened, queries, dlog, dexc, ids_by_node, feats_by_node, edges_index,
          dret, apc, ai, http, results, aexc, xpc, driver_closed, xret>>

----------------------------------------------------------------------------
(* Bounds and input alphabets *)

MaxRows == 2
MaxFlatRows == 3
MaxLabelRows == 3

Names == {"a", "b"}
Ids == {0, 1, 2}
EntityTypes == {"user", "org", "repo"}
Types == EntityTypes \cup {"bot"}

(* quickstart.py: the relationship schema, kind -> variant -> endpoints *)
relationships ==
  [ member_of |-> [type1 |-> [source |-> "user", target |-> "org"]],
    owner_of |-> [type1 |-> [source |-> "user", target |-> "repo"],
                  type2 |-> [source |-> "org", target |-> "repo"]],
    contributor_of |-> [type1 |-> [source |-> "user", target |-> "repo"],
                        type2 |-> [source |-> "org", target |-> "repo"]],
    parent_of |-> [type1 |-> [source |-> "repo", target |-> "repo"]] ]

Kinds == DOMAIN relationships
Props == Kinds \cup {"follows"}

----------------------------------------------------------------------------
(* utils/models.py *)

UserModel(name, id_) ==
  [name |-> name, id |-> id_, type |-> "User",
   owner_of |-> <<>>, contributor_of |-> <<>>]

OrgModel(name, id_) ==
  [name |-> name, id |-> id_, type |-> "Organization", members |-> <<>>,
   owner_of |-> <<>>, contributor_of |-> <<>>]

RepoModel(name, id_) ==
  [name |-> name, id |-> id_, type |-> "Repository", contributors |-> <<>>,
   owner |-> "", parent_of |-> <<>>]

(* a graph that is born with a user in it *)
GraphData_Seeded ==
  [users |-> ("a" :> UserModel("a", 0)), orgs |-> <<>>, repos |-> <<>>]

GraphData == [users |-> <<>>, orgs |-> <<>>, repos |-> <<>>]

add_user(g, name, id_) ==
  IF name \notin DOMAIN g.users
  THEN [g EXCEPT !.users = (name :> UserModel(name, id_)) @@ @]
  ELSE IF id_ # 0 THEN [g EXCEPT !.users[name].id = id_] ELSE g

add_org(g, name, id_) ==
  IF name \notin DOMAIN g.orgs
  THEN [g EXCEPT !.orgs = (name :> OrgModel(name, id_)) @@ @]
  ELSE IF id_ # 0 THEN [g EXCEPT !.orgs[name].id = id_] ELSE g

(* the id is refreshed by every later call, zero included *)
add_repo_AlwaysRefresh(g, name, id_) ==
  IF name \notin DOMAIN g.repos
  THEN [g EXCEPT !.repos = (name :> RepoModel(name, id_)) @@ @]
  ELSE [g EXCEPT !.repos[name].id = id_]

add_repo(g, name, id_) ==
  IF name \notin DOMAIN g.repos
  THEN [g EXCEPT !.repos = (name :> RepoModel(name, id_)) @@ @]
  ELSE IF id_ # 0 THEN [g EXCEPT !.repos[name].id = id_] ELSE g

----------------------------------------------------------------------------
(* utils/builder_models.py: df_to_pydantic_models *)

(* the mapping an entity of a given type lives in *)
MappingOf(t) ==
  CASE t = "user" -> "users"
    [] t = "org" -> "orgs"
    [] t = "repo" -> "repos"

(* lines 27-34 / 36-43: type dispatch to add_user / add_org / add_repo *)
AddByType(g, t, name, id_) ==
  CASE t = "user" -> add_user(g, name, id_)
    [] t = "org" -> add_org(g, name, id_)
    [] t = "repo" -> add_repo(g, name, id_)

(* the new member is put in front of the list *)
ApplyMemberOf_Prepend(g, row) ==
  [graph |-> [g EXCEPT !.orgs[row.target].members = <<row.source>> \o @],
   exc |-> "none"]

(* line 46-47: member_of applies to a user source and an org target only *)
ApplyMemberOf(g, row) ==
  [graph |-> [g EXCEPT !.orgs[row.target].members = Append(@, row.source)],
   exc |-> "none"]

(* the first owner stays: a later owner_of row does not overwrite it *)
ApplyOwnerOf_FirstWins(g, row) ==
  IF row.target_type = "repo"
  THEN IF row.source_type = "repo"
       THEN [graph |-> g, exc |-> "AttributeError"]
       ELSE [graph |->
               [[g EXCEPT ![MappingOf(row.source_type)][row.source].owner_of =
                            Append(@, row.target)]
                   EXCEPT !.repos[row.target].owner =
                            IF @ = "" THEN row.source ELSE @],
             exc |-> "none"]
  ELSE [graph |-> g, exc |-> "none"]

(* lines 49-52.  source_obj is the object the source mapping holds.  A     *)
(* RepoModel has no owner_of field: source_obj.owner_of raises             *)
(* AttributeError before anything is written.                              *)
ApplyOwnerOf(g, row) ==
  IF row.target_type = "repo"
  THEN IF row.source_type = "repo"
       THEN [graph |-> g, exc |-> "AttributeError"]
       ELSE [graph |->
               [[g EXCEPT ![MappingOf(row.source_type)][row.source].owner_of =
                            Append(@, row.target)]
                   EXCEPT !.repos[row.target].owner = row.source],
             exc |-> "none"]
  ELSE [graph |-> g, exc |-> "none"]

(* the append on the repo side is left out *)
ApplyContributorOf_OneSided(g, row) ==
  IF row.target_type = "repo"
  THEN IF row.source_type = "repo"
       THEN [graph |-> g, exc |-> "AttributeError"]
       ELSE [graph |->
               [g EXCEPT ![MappingOf(row.source_type)][row.source].contributor_of =
                           Append(@, row.target)],
             exc |-> "none"]
  ELSE [graph |-> g, exc |-> "none"]

(* lines 54-57.  A RepoModel has no contributor_of field either.           *)
ApplyContributorOf(g, row) ==
  IF row.target_type = "repo"
  THEN IF row.source_type = "repo"
       THEN [graph |-> g, exc |-> "AttributeError"]
       ELSE [graph |->
               [[g EXCEPT ![MappingOf(row.source_type)][row.source].contributor_of =
                            Append(@, row.target)]
                   EXCEPT !.repos[row.target].contributors = Append(@, row.source)],
             exc |-> "none"]
  ELSE [graph |-> g, exc |-> "none"]

(* lines 59-60: graph.repos[source] raises KeyError when no repo has the   *)
(* source's name; neither endpoint type is looked at.                      *)
ApplyParentOf(g, row) ==
  IF row.source \in DOMAIN g.repos
  THEN [graph |-> [g EXCEPT !.repos[row.source].parent_of = Append(@, row.target)],
        exc |-> "none"]
  ELSE [graph |-> g, exc |-> "KeyError"]

(* lines 45-60: the if/elif chain, on the graph after both adds *)
ApplyRelationship(g, row) ==
  IF /\ row.property = "member_of"
     /\ row.source_type = "user"
     /\ row.target_type = "org"
  THEN ApplyMemberOf(g, row)
  ELSE IF row.property = "owner_of" THEN ApplyOwnerOf(g, row)
  ELSE IF row.property = "contributor_of" THEN ApplyContributorOf(g, row)
  ELSE IF row.property = "parent_of" THEN ApplyParentOf(g, row)
  ELSE [graph |-> g, exc |-> "none"]

(* every kind passes the check *)
KindRecognized_Any(row) == TRUE

(* line 23: prop in relationships *)
KindRecognized(row) == row.property \in DOMAIN relationships

(* a member_of row creates its target only when the target is an org *)
TargetDispatch_MemberOrgOnly(g, row) ==
  IF row.property = "member_of" /\ row.target_type # "org"
  THEN g
  ELSE AddByType(g, row.target_type, row.target, row.target_id)

(* lines 36-41: create or update the target *)
TargetDispatch(g, row) == AddByType(g, row.target_type, row.target, row.target_id)

(* lines 14-60: the body of the loop for one row.  calls lists the         *)
(* add_user / add_org / add_repo calls the body issued, in order.          *)
FoldRow(g, row) ==
  IF ~KindRecognized(row)
  THEN [graph |-> g, exc |-> "none", calls |-> <<>>]
  ELSE IF row.source_type \notin EntityTypes
  THEN [graph |-> g, exc |-> "none", calls |-> <<>>]
  ELSE
    LET g1 == AddByType(g, row.source_type, row.source, row.source_id)
        c1 == <<[kind |-> row.source_type, name |-> row.source, id |-> row.source_id]>>
    IN
    IF row.target_type \notin EntityTypes
    THEN [graph |-> g1, exc |-> "none", calls |-> c1]
    ELSE
      LET g2 == TargetDispatch(g1, row)
          c2 == Append(c1, [kind |-> row.target_type, name |-> row.target,
                            id |-> row.target_id])
          r == ApplyRelationship(g2, row)
      IN [graph |-> r.graph, exc |-> r.exc, calls |-> c2]

----------------------------------------------------------------------------
(* Input rows *)

(* ids as a database gives them: one nonzero node id per (type, name) *)
NodeId(t, name) ==
  (CASE t = "user" -> 0 [] t = "org" -> 2 [] t = "repo" -> 4 [] OTHER -> 6)
  + (IF name = "a" THEN 1 ELSE 2)

Row(prop, st, s, tt, t, sid, tid) ==
  [source |-> s, target |-> t, property |-> prop, source_type |-> st,
   target_type |-> tt, source_id |-> sid, target_id |-> tid]

DbRow(prop, st, s, tt, t) == Row(prop, st, s, tt, t, NodeId(st, s), NodeId(tt, t))

IsVariant(prop, st, tt) ==
  /\ prop \in DOMAIN relationships
  /\ \E v \in DOMAIN relationships[prop] :
        relationships[prop][v].source = st /\ relationships[prop][v].target = tt

Recognized(row) ==
  /\ row.property \in DOMAIN relationships
  /\ row.source_type \in EntityTypes
  /\ row.target_type \in EntityTypes

(* recognized kind and recognized endpoint types that are no variant of the kind *)
Mismatched(row) ==
  Recognized(row) /\ ~IsVariant(row.property, row.source_type, row.target_type)

Shapes == Props \X Types \X Types

(* rows as neo4j_to_dataframe produces them: the endpoint types of a variant *)
SchemaRows ==
  { DbRow(x[1], x[2], s, x[3], t) :
      x \in {y \in Shapes : IsVariant(y[1], y[2], y[3])}, s \in Names, t \in Names }

(* recognized kind and types that do not fit each other *)
MismatchedRows ==
  { DbRow(x[1], x[2], "a", x[3], "b") :
      x \in {y \in Shapes : /\ y[1] \in Kinds
                            /\ y[2] \in EntityTypes /\ y[3] \in EntityTypes
                            /\ ~IsVariant(y[1], y[2], y[3])} }

(* an endpoint type outside user/org/repo *)
UnknownTypeRows ==
  { DbRow(x[1], x[2], "a", x[3], "b") :
      x \in {y \in Shapes : /\ y[1] \in {"owner_of", "parent_of"}
                            /\ (y[2] \notin EntityTypes \/ y[3] \notin EntityTypes)} }

(* a relationship kind outside the schema *)
UnknownKindRows ==
  { DbRow("follows", st, "a", tt, "b") : st \in {"user", "bot"}, tt \in {"repo", "bot"} }

BuildRows == SchemaRows \cup MismatchedRows \cup UnknownTypeRows \cup UnknownKindRows

(* rows with arbitrary ids, zero included, on a few shapes *)
IdRows ==
  { Row(x[1], x[2], s, x[3], "a", sid, tid) :
      x \in { <<"member_of", "user", "org">>, <<"owner_of", "org", "repo">>,
              <<"parent_of", "repo", "repo">>, <<"owner_of", "user", "bot">> },
      s \in Names, sid \in Ids, tid \in Ids }

----------------------------------------------------------------------------
(* df_to_pydantic_models as a state machine: one step per row of df *)

BuilderStart ==
  /\ graph = GraphData
  /\ rows = <<>>
  /\ calls = <<>>
  /\ pc = "loop"
  /\ exc = "none"

FlattenerIdle ==
  /\ nodes_ids = <<>>
  /\ nodes_features = <<>>
  /\ edges_indices = <<>>
  /\ node_lookup = <<>>
  /\ df = <<>>
  /\ vi = 1
  /\ fpc = "idle"
  /\ fexc = "none"

(* no renderer call was made *)
RendererIdle ==
  /\ seed_nodes = {}
  /\ discovered = <<>>
  /\ rcall = "none"
  /\ rpc = "idle"
  /\ G = [nodes |-> <<>>, order |-> <<>>, edges |-> <<>>]
  /\ components = <<>>
  /\ ci = 1
  /\ files = <<>>
  /\ dir_made = FALSE
  /\ rlog = <<>>
  /\ rexc = "none"

(* no downloader call was made *)
DownloaderIdle ==
  /\ dpc = "idle"
  /\ di = 1
  /\ open_sessions = {}
  /\ opened = 0
  /\ queries = <<>>
  /\ dlog = <<>>
  /\ dexc = "none"
  /\ ids_by_node = <<>>
  /\ feats_by_node = <<>>
  /\ edges_index = <<>>
  /\ dret = "none"

(* the analytics script was not started *)
AnalyticsIdle ==
  /\ apc = "idle"
  /\ ai = 1
  /\ http = <<>>
  /\ results = <<>>
  /\ aexc = "none"

(* extract_data was not called *)
ExtractIdle ==
  /\ xpc = "idle"
  /\ driver_closed = 0
  /\ xret = <<>>

Init ==
  /\ BuilderStart /\ FlattenerIdle /\ RendererIdle /\ DownloaderIdle
  /\ AnalyticsIdle /\ ExtractIdle

(* lines 13-60: the next row of df.iterrows() *)
ProcessRowUpTo(row, bound) ==
  /\ pc = "loop"
  /\ Len(rows) < bound
  /\ LET r == FoldRow(graph, row) IN
       /\ graph' = r.graph
       /\ calls' = calls \o r.calls
       /\ exc' = r.exc
       /\ pc' = IF r.exc = "none" THEN "loop" ELSE "raised"
  /\ rows' = Append(rows, row)
  /\ UNCHANGED <<fvars, rvars, dvars, avars, xvars>>

ProcessRow(row) == ProcessRowUpTo(row, MaxRows)

(* line 62: df.iterrows() is exhausted *)
Return ==
  /\ pc = "loop"
  /\ pc' = "done"
  /\ UNCHANGED <<graph, rows, calls, exc>>
  /\ UNCHANGED <<fvars, rvars, dvars, avars, xvars>>

Next ==
  \/ \E row \in BuildRows : ProcessRow(row)
  \/ Return

Spec == Init /\ [][Next]_vars

NextIds ==
  \/ \E row \in IdRows : ProcessRow(row)
  \/ Return

SpecIds == Init /\ [][NextIds]_vars

----------------------------------------------------------------------------
(* Properties of df_to_pydantic_models *)

Range(q) == { q[i] : i \in DOMAIN q }

RowIdx == 1..Len(rows)

(* the entities of a type, by name *)
Entities(t) == graph[MappingOf(t)]

(* C1: after the build completes, both endpoints of every row with a       *)
(* recognized kind and recognized endpoint types are keys of the mapping   *)
(* of their type.                                                          *)
C1_EndpointsExist ==
  pc = "done" =>
    \A i \in RowIdx :
      Recognized(rows[i]) =>
        /\ rows[i].source \in DOMAIN Entities(rows[i].source_type)
        /\ rows[i].target \in DOMAIN Entities(rows[i].target_type)

C1_Witness ==
  /\ pc = "done"
  /\ \E i \in RowIdx :
       /\ Mismatched(rows[i])
       /\ rows[i].target_type # "repo"
       /\ rows[i].source_type # rows[i].target_type
  /\ \E i \in RowIdx : ~Recognized(rows[i])

(* the names a relationship list of the graph refers to resolve *)
NoDangling(g) ==
  /\ \A u \in DOMAIN g.users :
       /\ Range(g.users[u].owner_of) \subseteq DOMAIN g.repos
       /\ Range(g.users[u].contributor_of) \subseteq DOMAIN g.repos
  /\ \A o \in DOMAIN g.orgs :
       /\ Range(g.orgs[o].owner_of) \subseteq DOMAIN g.repos
       /\ Range(g.orgs[o].contributor_of) \subseteq DOMAIN g.repos
       /\ Range(g.orgs[o].members) \subseteq DOMAIN g.users
  /\ \A r \in DOMAIN g.repos :
       /\ Range(g.repos[r].parent_of) \subseteq DOMAIN g.repos
       /\ Range(g.repos[r].contributors) \subseteq (DOMAIN g.users \cup DOMAIN g.orgs)
       /\ g.repos[r].owner # "" =>
            g.repos[r].owner \in (DOMAIN g.users \cup DOMAIN g.orgs)

(* C2: after a build of rows that all have a recognized kind and           *)
(* recognized endpoint types, no relationship list dangles.                *)
C2_NoDangling ==
  (pc = "done" /\ \A i \in RowIdx : Recognized(rows[i])) => NoDangling(graph)

(* e holds r in the owner_of (contributor_of) list of the user or org e *)
ListsOwned(e, r) ==
  \/ e \in DOMAIN graph.users /\ r \in Range(graph.users[e].owner_of)
  \/ e \in DOMAIN graph.orgs /\ r \in Range(graph.orgs[e].owner_of)

ListsContributed(e, r) ==
  \/ e \in DOMAIN graph.users /\ r \in Range(graph.users[e].contributor_of)
  \/ e \in DOMAIN graph.orgs /\ r \in Range(graph.orgs[e].contributor_of)

(* r names e in its owner field (contributors list) *)
OwnedBy(r, e) == r \in DOMAIN graph.repos /\ graph.repos[r].owner = e

ContributedBy(r, e) ==
  r \in DOMAIN graph.repos /\ e \in Range(graph.repos[r].contributors)

(* the owner_of rows that reach line 52 for repo r *)
OwnerRows(r) ==
  { i \in RowIdx : /\ rows[i].property = "owner_of"
                   /\ rows[i].source_type \in {"user", "org"}
                   /\ rows[i].target_type = "repo"
                   /\ rows[i].target = r }

LastOf(S) == CHOOSE i \in S : \A j \in S : j <= i

(* C3 as stated, for the two kinds models.py stores on both endpoints      *)
(* (member_of lives in OrgModel.members only, parent_of in                 *)
(* RepoModel.parent_of only): after building, an owner_of or               *)
(* contributor_of relationship read from one endpoint is read from the     *)
(* other endpoint too.                                                     *)
C3_BothEndpoints ==
  pc = "done" =>
    \A e \in Names, r \in Names :
      /\ ListsOwned(e, r) <=> OwnedBy(r, e)
      /\ ListsContributed(e, r) <=> ContributedBy(r, e)

(* C3 amended: after building, contributor_of is read from both endpoints; *)
(* an owner read from a repo's owner field has the repo in its owner_of    *)
(* list; a repo in an owner_of list exists and has an owner, which is the  *)
(* holder of the list exactly when the last owner_of row for that repo     *)
(* names the holder.                                                       *)
C3_BothEndpointsLastOwner ==
  pc = "done" =>
    \A e \in Names, r \in Names :
      /\ ListsContributed(e, r) <=> ContributedBy(r, e)
      /\ OwnedBy(r, e) => ListsOwned(e, r)
      /\ ListsOwned(e, r) =>
           /\ r \in DOMAIN graph.repos
           /\ OwnerRows(r) # {}
           /\ OwnedBy(r, e) <=> (rows[LastOf(OwnerRows(r))].source = e)

C3_Witness ==
  /\ pc = "done"
  /\ \E e \in Names, r \in Names : ListsOwned(e, r) /\ ~OwnedBy(r, e)
  /\ \E e \in Names, r \in Names : ListsOwned(e, r) /\ OwnedBy(r, e)

(* C4 as stated: after the build completes, the owner of the target of     *)
(* every owner_of row with a repo target is that row's source.             *)
C4_OwnerIsSource ==
  pc = "done" =>
    \A i \in RowIdx :
      (rows[i].property = "owner_of" /\ rows[i].target_type = "repo") =>
        OwnedBy(rows[i].target, rows[i].source)

(* C4 amended: after the build completes, for every owner_of row with a    *)
(* user or org source and a repo target, the owner of the target is the    *)
(* source of the last such row for that target.                            *)
C4_OwnerIsLastSource ==
  pc = "done" =>
    \A i \in RowIdx :
      (/\ rows[i].property = "owner_of"
       /\ rows[i].source_type \in {"user", "org"}
       /\ rows[i].target_type = "repo") =>
        \E j \in i..Len(rows) :
          /\ j \in OwnerRows(rows[i].target)
          /\ \A k \in (j+1)..Len(rows) : k \notin OwnerRows(rows[i].target)
          /\ OwnedBy(rows[i].target, rows[j].source)

C4_Witness ==
  /\ pc = "done"
  /\ \E i \in RowIdx, j \in RowIdx :
       /\ i < j
       /\ i \in OwnerRows(rows[i].target)
       /\ j \in OwnerRows(rows[i].target)
       /\ rows[i].source # rows[j].source

(* the add_user / add_org / add_repo calls of one kind, in call order *)
CallsOf(k) == SelectSeq(calls, LAMBDA c : c.kind = k)

(* the id the calls cs leave on name n: the id of the first call for n,    *)
(* unless a later call for n has a nonzero id, then the last such id       *)
ExpectedId(cs, n) ==
  LET occ == { i \in DOMAIN cs : cs[i].name = n }
      first == CHOOSE i \in occ : \A j \in occ : i <= j
      later == { i \in occ : i > first /\ cs[i].id # 0 }
  IN IF later = {} THEN cs[first].id ELSE cs[LastOf(later)].id

(* C6: after any sequence of add_user / add_org / add_repo calls the       *)
(* builder issues, each mapping has one entity per distinct name called,   *)
(* stored under its name, with the first id unless a later call gave a     *)
(* nonzero id, then the last nonzero id.                                   *)
C6_DedupByName ==
  \A k \in EntityTypes :
    /\ DOMAIN Entities(k) = { c.name : c \in Range(CallsOf(k)) }
    /\ \A n \in DOMAIN Entities(k) :
         /\ Entities(k)[n].name = n
         /\ Entities(k)[n].id = ExpectedId(CallsOf(k), n)

C6_Witness ==
  \E k \in EntityTypes, n \in Names :
    LET cs == CallsOf(k)
        occ == { i \in DOMAIN cs : cs[i].name = n }
    IN /\ n \in DOMAIN Entities(k)
       /\ \E i \in occ, j \in occ, l \in occ :
            /\ i < j /\ j < l
            /\ cs[i].id # 0 /\ cs[j].id # 0 /\ cs[j].id # cs[i].id
            /\ cs[l].id = 0
       /\ \E m \in Names : m # n /\ m \in DOMAIN Entities(k)

(* C7: the builder does not raise on a row whose kind and endpoint types   *)
(* are recognized but do not fit each other.                               *)
C7_MismatchTolerated ==
  pc = "raised" => ~Mismatched(rows[Len(rows)])

(* the row a step has just folded *)
Folded == rows'[Len(rows')]

(* C8: a row with a source or target type outside user/org/repo leaves     *)
(* the graph as it was.                                                    *)
C8_UnknownTypeSkipped ==
  [][ (/\ Len(rows') = Len(rows) + 1
       /\ (Folded.source_type \notin EntityTypes \/ Folded.target_type \notin EntityTypes))
      => graph' = graph ]_vars

(* C9: a row whose kind is no key of the schema leaves the graph as it     *)
(* was, issues no add call, raises nothing, and the loop goes on.          *)
C9_UnknownKindSkipped ==
  [][ (Len(rows') = Len(rows) + 1 /\ Folded.property \notin DOMAIN relationships)
      => /\ graph' = graph
         /\ calls' = calls
         /\ exc' = "none"
         /\ pc' = "loop" ]_vars

C9_Witness ==
  /\ Len(rows) = 2
  /\ Recognized(rows[1])
  /\ rows[2].property \notin DOMAIN relationships
  /\ rows[2].source_type = "user"
  /\ rows[2].target_type = "repo"
  /\ rows[2].target \notin DOMAIN graph.repos
  /\ pc = "loop"

----------------------------------------------------------------------------
(* utils/neo4jdownloader.py, utils/builder_dataframe.py *)

(* quickstart.py: the order in which relationships.items() and each        *)
(* rel_types.items() yield the schema                                      *)
SchemaOrder ==
  << <<"member_of", "type1">>,
     <<"owner_of", "type1">>, <<"owner_of", "type2">>,
     <<"contributor_of", "type1">>, <<"contributor_of", "type2">>,
     <<"parent_of", "type1">> >>

Min(x, y) == IF x <= y THEN x ELSE y

(* get_edges: np.array(edge_index).T of the records (src, dst) a query     *)
(* returned.  N >= 1 records give an array of shape (2, N), modelled as    *)
(* <<src ids, dst ids>>; no record gives np.array([]).T, an array of       *)
(* shape (0,), modelled as <<>>.                                           *)
get_edges(records) ==
  IF records = <<>>
  THEN <<>>
  ELSE << [i \in 1..Len(records) |-> records[i][1]],
          [i \in 1..Len(records) |-> records[i][2]] >>

(* lines 29-36: node_lookup[t].get(id, {}).get("name", f"{t}_{id}"),      *)
(* for a type t that is a key of node_lookup                               *)
ResolveName(lookup, t, id) ==
  IF id \in DOMAIN lookup[t] /\ "name" \in DOMAIN lookup[t][id]
  THEN lookup[t][id].name
  ELSE t \o "_" \o ToString(id)

(* lines 7-14: the lookup type -> id -> feature record.  Ids are zipped    *)
(* with the feature list up to its length; of two equal ids the later      *)
(* one stays.                                                              *)
BuildLookup(ids_by_type, feats_by_type) ==
  [ t \in DOMAIN ids_by_type |->
      LET ids == ids_by_type[t]
          fl == IF t \in DOMAIN feats_by_type THEN feats_by_type[t] ELSE <<>>
          idx == { i \in DOMAIN ids : i <= Len(fl) }
      IN [ nid \in { ids[i] : i \in idx } |->
             fl[CHOOSE i \in idx : ids[i] = nid /\ \A j \in idx : ids[j] = nid => j <= i] ] ]

(* the rows of the variants are appended in reverse array order *)
VariantRows_Reversed(lookup, rel_name, src_type, tgt_type, arr) ==
  LET n == Min(Len(arr[1]), Len(arr[2])) IN
  [ k \in 1..n |->
      Row(rel_name, src_type, ResolveName(lookup, src_type, arr[1][n + 1 - k]),
          tgt_type, ResolveName(lookup, tgt_type, arr[2][n + 1 - k]),
          arr[1][n + 1 - k], arr[2][n + 1 - k]) ]

(* lines 26-47: the rows of one variant, from its (2, N) edge array *)
VariantRows(lookup, rel_name, src_type, tgt_type, arr) ==
  [ k \in 1..Min(Len(arr[1]), Len(arr[2])) |->
      Row(rel_name, src_type, ResolveName(lookup, src_type, arr[1][k]),
          tgt_type, ResolveName(lookup, tgt_type, arr[2][k]),
          arr[1][k], arr[2][k]) ]

(* lines 17-47: the loop body for one (kind, variant) of the schema.       *)
(* edge_array[0] raises IndexError on an array of shape (0,);              *)
(* node_lookup[type] raises KeyError for a type that is no key of          *)
(* nodes_ids, once there is an id to resolve.                              *)
FlattenStep(lookup, edges, key) ==
  LET rel_info == relationships[key[1]][key[2]] IN
  IF key \notin DOMAIN edges
  THEN [rows |-> <<>>, exc |-> "none"]
  ELSE IF edges[key] = <<>>
  THEN [rows |-> <<>>, exc |-> "IndexError"]
  ELSE IF \/ Len(edges[key][1]) > 0 /\ rel_info.source \notin DOMAIN lookup
          \/ Len(edges[key][2]) > 0 /\ rel_info.target \notin DOMAIN lookup
  THEN [rows |-> <<>>, exc |-> "KeyError"]
  ELSE [rows |-> VariantRows(lookup, key[1], rel_info.source, rel_info.target, edges[key]),
        exc |-> "none"]

----------------------------------------------------------------------------
(* Inputs of neo4j_to_dataframe *)

NodeIds == {1, 2}

Named(t, i) == [name |-> t \o ToString(i) \o "-name", anchor |-> FALSE]
Nameless == [anchor |-> FALSE]

(* the node list and feature list of one type *)
NodeConfig(t, c) ==
  CASE c = "full" ->
         [has_ids |-> TRUE, ids |-> <<1, 2>>,
          has_feats |-> TRUE, feats |-> <<Named(t, 1), Named(t, 2)>>]
    [] c = "noname" ->
         [has_ids |-> TRUE, ids |-> <<1, 2>>,
          has_feats |-> TRUE, feats |-> <<Nameless, Named(t, 2)>>]
    [] c = "short" ->
         [has_ids |-> TRUE, ids |-> <<2, 1>>,
          has_feats |-> TRUE, feats |-> <<Named(t, 2)>>]
    [] c = "dup" ->
         [has_ids |-> TRUE, ids |-> <<1, 1>>,
          has_feats |-> TRUE, feats |-> <<Nameless, Named(t, 1)>>]
    [] c = "nofeats" ->
         [has_ids |-> TRUE, ids |-> <<1, 2>>, has_feats |-> FALSE, feats |-> <<>>]
    [] c = "missing" ->
         [has_ids |-> FALSE, ids |-> <<>>, has_feats |-> FALSE, feats |-> <<>>]

NodeConfigs == {"full", "noname", "short", "dup", "nofeats", "missing"}

(* the configurations of user, org and repo *)
NodeScenarios ==
  { [user |-> c, org |-> c, repo |-> c] : c \in NodeConfigs }
    \cup { [user |-> "full", org |-> "missing", repo |-> "noname"],
           [user |-> "short", org |-> "full", repo |-> "dup"] }

ScenarioIds(sc) ==
  [ t \in { u \in EntityTypes : NodeConfig(u, sc[u]).has_ids } |-> NodeConfig(t, sc[t]).ids ]

ScenarioFeatures(sc) ==
  [ t \in { u \in EntityTypes : NodeConfig(u, sc[u]).has_feats } |-> NodeConfig(t, sc[t]).feats ]

(* the records (src id, dst id) a relationship query may return *)
EdgePairs == { <<1, 1>>, <<1, 2>>, <<2, 1>> }

EdgeRecords(n) == UNION { [1..m -> EdgePairs] : m \in 0..n }

----------------------------------------------------------------------------
(* neo4j_to_dataframe as a state machine: one step per schema variant *)

InitFlat ==
  /\ BuilderStart
  /\ RendererIdle
  /\ DownloaderIdle
  /\ AnalyticsIdle
  /\ ExtractIdle
  /\ \E sc \in NodeScenarios :
       /\ nodes_ids = ScenarioIds(sc)
       /\ nodes_features = ScenarioFeatures(sc)
  /\ edges_indices = <<>>
  /\ node_lookup = <<>>
  /\ df = <<>>
  /\ vi = 1
  /\ fpc = "start"
  /\ fexc = "none"

(* lines 5-14 *)
Lookup ==
  /\ fpc = "start"
  /\ node_lookup' = BuildLookup(nodes_ids, nodes_features)
  /\ fpc' = "loop"
  /\ UNCHANGED <<nodes_ids, nodes_features, edges_indices, df, vi, fexc>>
  /\ UNCHANGED <<bvars, rvars, dvars, avars, xvars>>

(* lines 17-47 for the variant at position vi; edges_indices has no entry  *)
(* for it (present = FALSE) or the array get_edges made of records         *)
FlattenVariant(present, records) ==
  /\ fpc = "loop"
  /\ vi <= Len(SchemaOrder)
  /\ Len(df) + Len(records) <= MaxFlatRows
  /\ LET key == SchemaOrder[vi]
         edges == IF present THEN (key :> get_edges(records)) @@ edges_indices
                  ELSE edges_indices
         r == FlattenStep(node_lookup, edges, key)
     IN /\ edges_indices' = edges
        /\ df' = df \o r.rows
        /\ fexc' = r.exc
        /\ fpc' = IF r.exc = "none" THEN "loop" ELSE "raised"
        /\ vi' = IF r.exc = "none" THEN vi + 1 ELSE vi
  /\ UNCHANGED <<nodes_ids, nodes_features, node_lookup>>
  /\ UNCHANGED <<bvars, rvars, dvars, avars, xvars>>

(* lines 49-50: the schema is exhausted *)
ReturnDf ==
  /\ fpc = "loop"
  /\ vi = Len(SchemaOrder) + 1
  /\ fpc' = "done"
  /\ UNCHANGED <<nodes_ids, nodes_features, edges_indices, node_lookup, df, vi, fexc>>
  /\ UNCHANGED <<bvars, rvars, dvars, avars, xvars>>

NextFlat ==
  \/ Lookup
  \/ \E records \in EdgeRecords(MaxFlatRows) : FlattenVariant(TRUE, records)
  \/ FlattenVariant(FALSE, <<>>)
  \/ ReturnDf

SpecFlat == InitFlat /\ [][NextFlat]_vars

----------------------------------------------------------------------------
(* Properties of neo4j_to_dataframe *)

SchemaIdx == 1..Len(SchemaOrder)

InEdges(i) == SchemaOrder[i] \in DOMAIN edges_indices

Endpoints(i) == relationships[SchemaOrder[i][1]][SchemaOrder[i][2]]

(* the number of array positions of the variants before position i *)
RECURSIVE Offset(_)
Offset(i) ==
  IF i = 1 THEN 0
  ELSE Offset(i - 1)
       + (IF InEdges(i - 1) THEN Len(edges_indices[SchemaOrder[i - 1]][1]) ELSE 0)

Synthetic(t, id) == t \o "_" \o ToString(id)

(* the name of id under the lookup of type t, as the flattener is to give it *)
NameIs(name, t, id) ==
  IF id \notin DOMAIN node_lookup[t] \/ "name" \notin DOMAIN node_lookup[t][id]
  THEN name = Synthetic(t, id)
  ELSE name = node_lookup[t][id].name

(* the lookup holds feature records of the node lists, by id *)
LookupFromNodes ==
  /\ DOMAIN node_lookup = DOMAIN nodes_ids
  /\ \A t \in DOMAIN node_lookup :
       \A id \in DOMAIN node_lookup[t] :
         \E i \in DOMAIN nodes_ids[t] :
           /\ nodes_ids[t][i] = id
           /\ t \in DOMAIN nodes_features
           /\ i \in DOMAIN nodes_features[t]
           /\ node_lookup[t][id] = nodes_features[t][i]

(* C5: the returned rows are one per position of the id arrays of each     *)
(* variant that is in the schema and in the edges, in schema order and     *)
(* then array order; a row has the kind, the variant's types, the two ids  *)
(* and the names from the lookup, or type_id when the id is not in the     *)
(* lookup or its record has no name.                                       *)
C5_RowsPerPosition ==
  fpc = "done" =>
    /\ LookupFromNodes
    /\ Len(df) = Offset(Len(SchemaOrder) + 1)
    /\ \A i \in SchemaIdx :
         InEdges(i) =>
           LET arr == edges_indices[SchemaOrder[i]] IN
           /\ Len(arr[1]) = Len(arr[2])
           /\ \A k \in 1..Len(arr[1]) :
                LET row == df[Offset(i) + k] IN
                /\ row.property = SchemaOrder[i][1]
                /\ row.source_type = Endpoints(i).source
                /\ row.target_type = Endpoints(i).target
                /\ row.source_id = arr[1][k]
                /\ row.target_id = arr[2][k]
                /\ NameIs(row.source, row.source_type, row.source_id)
                /\ NameIs(row.target, row.target_type, row.target_id)

C5_Witness ==
  /\ fpc = "done"
  /\ Len(df) = 3
  /\ df[1].property # df[3].property
  /\ df[1].property = df[2].property
  /\ df[1].source_type = df[2].source_type
  /\ df[1].source_id # df[2].source_id
  /\ \E i \in SchemaIdx : ~InEdges(i)
  /\ \E k \in 1..3 : df[k].source = Synthetic(df[k].source_type, df[k].source_id)
  /\ \E k \in 1..3 : df[k].source # Synthetic(df[k].source_type, df[k].source_id)

(* C10: a variant whose edge array is what get_edges returns for no        *)
(* record adds no row and raises nothing, and the loop goes on to the      *)
(* next variant.                                                           *)
C10_EmptyVariantNoRows ==
  [][ (/\ edges_indices' # edges_indices
       /\ edges_indices'[SchemaOrder[vi]] = get_edges(<<>>))
      => /\ df' = df
         /\ fexc' = "none"
         /\ fpc' = "loop"
         /\ vi' = vi + 1 ]_vars

----------------------------------------------------------------------------
(* utils/visualization.py: create_networkx_graph *)

(* lines 13-33: the model covers an installation where networkx and        *)
(* matplotlib were imported                                                *)
VISUALIZATION_AVAILABLE == TRUE

(* the elements of q in order of first occurrence, those in seen left out *)
RECURSIVE FirstSeen(_, _)
FirstSeen(q, seen) ==
  IF q = <<>> THEN <<>>
  ELSE IF Head(q) \in seen THEN FirstSeen(Tail(q), seen)
  ELSE <<Head(q)>> \o FirstSeen(Tail(q), seen \cup {Head(q)})

RECURSIVE Flatten(_)
Flatten(ss) == IF ss = <<>> THEN <<>> ELSE Head(ss) \o Flatten(Tail(ss))

(* the keys of a mapping of GraphData in dict order: add_user / add_org /  *)
(* add_repo insert a name at its first call                                *)
KeysInOrder(cs, kind) ==
  LET of_kind == SelectSeq(cs, LAMBDA c : c.kind = kind)
  IN FirstSeen([i \in DOMAIN of_kind |-> of_kind[i].name], {})

DictOrder(cs) ==
  [users |-> KeysInOrder(cs, "user"), orgs |-> KeysInOrder(cs, "org"),
   repos |-> KeysInOrder(cs, "repo")]

(* lines 71-90: the add_node calls for users, then orgs, then repos *)
EntityNodeWrites(ord) ==
  [i \in DOMAIN ord.users |-> [name |-> ord.users[i], node_type |-> "user"]]
  \o [i \in DOMAIN ord.orgs |-> [name |-> ord.orgs[i], node_type |-> "org"]]
  \o [i \in DOMAIN ord.repos |-> [name |-> ord.repos[i], node_type |-> "repo"]]

(* lines 113-122: the add_edge calls for one user *)
UserEdgeWrites(g, u) ==
  LET e == g.users[u]
      owned == SelectSeq(e.owner_of, LAMBDA r : r \in DOMAIN g.repos)
      contributed == SelectSeq(e.contributor_of, LAMBDA r : r \in DOMAIN g.repos)
  IN [i \in DOMAIN owned |-> [u |-> u, v |-> owned[i], relationship |-> "owner_of"]]
     \o [i \in DOMAIN contributed |->
           [u |-> u, v |-> contributed[i], relationship |-> "contributor_of"]]

(* lines 125-139: the add_edge calls for one org *)
OrgEdgeWrites(g, o) ==
  LET e == g.orgs[o]
      members == SelectSeq(e.members, LAMBDA m : m \in DOMAIN g.users)
      owned == SelectSeq(e.owner_of, LAMBDA r : r \in DOMAIN g.repos)
      contributed == SelectSeq(e.contributor_of, LAMBDA r : r \in DOMAIN g.repos)
  IN [i \in DOMAIN members |-> [u |-> members[i], v |-> o, relationship |-> "member_of"]]
     \o [i \in DOMAIN owned |-> [u |-> o, v |-> owned[i], relationship |-> "owner_of"]]
     \o [i \in DOMAIN contributed |->
           [u |-> o, v |-> contributed[i], relationship |-> "contributor_of"]]

(* the fork edges point from the fork to its parent *)
RepoEdgeWrites_ForkReversed(g, r) ==
  LET e == g.repos[r]
      contributors == SelectSeq(e.contributors,
                        LAMBDA c : c \in DOMAIN g.users \/ c \in DOMAIN g.orgs)
      forks == SelectSeq(e.parent_of, LAMBDA item : item \in DOMAIN g.repos)
  IN [i \in DOMAIN contributors |->
        [u |-> contributors[i], v |-> r,
         relationship |-> IF contributors[i] = e.owner THEN "owner_of"
                          ELSE "contributor_of"]]
     \o [i \in DOMAIN forks |-> [u |-> forks[i], v |-> r, relationship |-> "parent_of"]]

(* the owner of a repo is not told from its other contributors *)
RepoEdgeWrites_NoOwnerLabel(g, r) ==
  LET e == g.repos[r]
      contributors == SelectSeq(e.contributors,
                        LAMBDA c : c \in DOMAIN g.users \/ c \in DOMAIN g.orgs)
      forks == SelectSeq(e.parent_of, LAMBDA item : item \in DOMAIN g.repos)
  IN [i \in DOMAIN contributors |->
        [u |-> contributors[i], v |-> r, relationship |-> "contributor_of"]]
     \o [i \in DOMAIN forks |-> [u |-> r, v |-> forks[i], relationship |-> "parent_of"]]

(* lines 142-155: the add_edge calls for one repo *)
RepoEdgeWrites(g, r) ==
  LET e == g.repos[r]
      contributors == SelectSeq(e.contributors,
                        LAMBDA c : c \in DOMAIN g.users \/ c \in DOMAIN g.orgs)
      forks == SelectSeq(e.parent_of, LAMBDA item : item \in DOMAIN g.repos)
  IN [i \in DOMAIN contributors |->
        [u |-> contributors[i], v |-> r,
         relationship |-> IF contributors[i] = e.owner THEN "owner_of"
                          ELSE "contributor_of"]]
     \o [i \in DOMAIN forks |-> [u |-> r, v |-> forks[i], relationship |-> "parent_of"]]

(* lines 162-174: the kind of the edge from a parent to a discovered node *)
DiscoveredRelationship_Unknown(parent_type, node_type) == "unknown"

DiscoveredRelationship(parent_type, node_type) ==
  CASE parent_type = "user" /\ node_type = "repo" -> "owner_of"
    [] parent_type = "org" /\ node_type = "repo" -> "owner_of"
    [] parent_type = "user" /\ node_type = "org" -> "member_of"
    [] parent_type = "org" /\ node_type = "user" -> "member_of"
    [] parent_type = "repo" /\ node_type = "user" -> "contributor_of"
    [] parent_type = "repo" /\ node_type = "repo" -> "parent_of"
    [] OTHER -> "unknown"

(* lines 159-176: the add_edge calls for the discovered nodes; nodes is    *)
(* the node set of G, an empty parent_id stands for None                   *)
DiscoveredEdgeWrites(nodes, disc) ==
  LET linked == SelectSeq(disc, LAMBDA d : /\ d.node_id \in nodes
                                           /\ d.parent_id # ""
                                           /\ d.parent_id \in nodes)
  IN [i \in DOMAIN linked |->
        [u |-> linked[i].parent_id, v |-> linked[i].node_id,
         relationship |-> DiscoveredRelationship(linked[i].parent_type,
                                                 linked[i].node_type)]]

(* the last of the writes at the positions S of ws *)
LastWrite(ws, S) == ws[CHOOSE i \in S : \A j \in S : j <= i]

(* lines 49-178.  A DiGraph keeps one node per name and one edge per       *)
(* ordered pair; a later add_node / add_edge overwrites the attributes.    *)
(* is_seed and is_explored are what the readers get from                   *)
(* node_data.get('is_seed', False) and node_data.get('is_explored', True): *)
(* only discovered nodes are given the two attributes (lines 104-105).     *)
(* ord is the dict order of the three mappings, disc the discovered_nodes  *)
(* items in dict order.                                                    *)
create_networkx_graph(g, ord, disc) ==
  LET ew == EntityNodeWrites(ord)
      enames == { ew[i].name : i \in DOMAIN ew }
      dw == SelectSeq(disc, LAMBDA d : d.node_id \notin enames)
      dnames == { dw[i].node_id : i \in DOMAIN dw }
      nodes == [n \in enames \cup dnames |->
                  IF n \in enames
                  THEN [node_type |-> LastWrite(ew, { i \in DOMAIN ew : ew[i].name = n }).node_type,
                        is_seed |-> FALSE, is_explored |-> TRUE]
                  ELSE [node_type |->
                          LastWrite(dw, { i \in DOMAIN dw : dw[i].node_id = n }).node_type,
                        is_seed |-> FALSE, is_explored |-> FALSE]]
      order == FirstSeen([i \in DOMAIN ew |-> ew[i].name]
                           \o [i \in DOMAIN dw |-> dw[i].node_id], {})
      writes == Flatten([i \in DOMAIN ord.users |-> UserEdgeWrites(g, ord.users[i])])
                \o Flatten([i \in DOMAIN ord.orgs |-> OrgEdgeWrites(g, ord.orgs[i])])
                \o Flatten([i \in DOMAIN ord.repos |-> RepoEdgeWrites(g, ord.repos[i])])
                \o DiscoveredEdgeWrites(enames \cup dnames, disc)
      pairs == { <<writes[i].u, writes[i].v>> : i \in DOMAIN writes }
  IN [nodes |-> nodes,
      order |-> order,
      edges |-> [p \in pairs |->
                   LastWrite(writes, { i \in DOMAIN writes :
                                         writes[i].u = p[1] /\ writes[i].v = p[2] }).relationship]]

(* networkx: the nodes reachable from S along edges taken in either direction *)
RECURSIVE Reach(_, _)
Reach(gr, S) ==
  LET T == S \cup { v \in DOMAIN gr.nodes :
                      \E u \in S : <<u, v>> \in DOMAIN gr.edges
                                   \/ <<v, u>> \in DOMAIN gr.edges }
  IN IF T = S THEN S ELSE Reach(gr, T)

RECURSIVE ComponentsFrom(_, _, _)
ComponentsFrom(gr, q, seen) ==
  IF q = <<>> THEN <<>>
  ELSE IF Head(q) \in seen THEN ComponentsFrom(gr, Tail(q), seen)
  ELSE LET c == Reach(gr, {Head(q)})
       IN <<c>> \o ComponentsFrom(gr, Tail(q), seen \cup c)

(* networkx: the components in the order their first node was added *)
weakly_connected_components(gr) == ComponentsFrom(gr, gr.order, {})

SortedByLenReverse_Unsorted(cs) == cs

(* line 627: sorted(components, key=len, reverse=True), a stable sort *)
SortedByLenReverse(cs) ==
  LET Before(i, j) ==
        \/ Cardinality(cs[i]) > Cardinality(cs[j])
        \/ Cardinality(cs[i]) = Cardinality(cs[j]) /\ i < j
      Rank(i) == Cardinality({ j \in DOMAIN cs : Before(j, i) }) + 1
  IN [k \in DOMAIN cs |-> cs[CHOOSE i \in DOMAIN cs : Rank(i) = k]]

(* line 628: G.subgraph(component), the induced subgraph *)
subgraph(gr, component) ==
  [nodes |-> [n \in component |-> gr.nodes[n]],
   edges |-> [p \in { q \in DOMAIN gr.edges : q[1] \in component /\ q[2] \in component }
                |-> gr.edges[p]]]

(* every cluster is saved under one name *)
cluster_path_NoIndex(idx) == "out/graph_cluster.png"

(* line 836: f'{cluster_prefix_name}_cluster_{idx:02d}.png' under output_dir *)
cluster_path(idx) ==
  "out/graph_cluster_" \o (IF idx < 10 THEN "0" ELSE "") \o ToString(idx) \o ".png"

(* the output_path of visualize_graph *)
output_path == "out/graph.png"

----------------------------------------------------------------------------
(* utils/visualization.py: visualize_graph and visualize_clusters *)

LogRecord(level, line) == [level |-> level, line |-> line]

(* lines 360-450: the nodes visualize_graph draws, by exploration status   *)
(* and type                                                                *)
DrawnNodes(gr) ==
  { n \in DOMAIN gr.nodes :
      \/ gr.nodes[n].is_seed
      \/ ~gr.nodes[n].is_explored
      \/ gr.nodes[n].node_type \in EntityTypes }

(* lines 364-367, 666: the nodes drawn as squares, those whose is_seed     *)
(* attribute is set; a node without the attribute counts as no seed        *)
seed_nodes_list(gr) == { n \in DOMAIN gr.nodes : gr.nodes[n].is_seed }

(* what an image shows *)
Image(nodes, edges, seeds) == [nodes |-> nodes, edges |-> edges, seeds |-> seeds]

(* lines 825-832: the title of a cluster image,                            *)
(* 'Cluster {idx} of {len(components)}' and                                *)
(* '{len(component)} nodes, {len(subgraph.edges())} edges'                 *)
ClusterTitle(idx, total, component, sub) ==
  [idx |-> idx, of |-> total,
   nodes |-> Cardinality(component), edges |-> Cardinality(DOMAIN sub.edges)]

(* a file savefig began and did not finish *)
Truncated == [nodes |-> {}, edges |-> {}, truncated |-> TRUE]

(* rows for the graphs that are rendered: shared names across kinds,      *)
(* several components, a lone node                                          *)
RenderRows ==
  { DbRow("member_of", "user", "a", "org", "b"),
    DbRow("member_of", "user", "c", "org", "c"),
    DbRow("owner_of", "user", "a", "repo", "b"),
    DbRow("owner_of", "user", "a", "repo", "a"),
    DbRow("owner_of", "org", "b", "repo", "c"),
    DbRow("contributor_of", "user", "a", "repo", "b"),
    DbRow("contributor_of", "org", "b", "repo", "a"),
    DbRow("parent_of", "repo", "c", "repo", "c"),
    DbRow("parent_of", "repo", "b", "repo", "c"),
    DbRow("owner_of", "user", "c", "bot", "c") }

Discovered(node_id, node_type, parent_id, parent_type) ==
  [node_id |-> node_id, node_type |-> node_type,
   parent_id |-> parent_id, parent_type |-> parent_type]

(* the discovered_nodes mappings passed to visualize_graph; <<>> is None *)
DiscoveredMaps ==
  { <<>>,
    << Discovered("d", "repo", "a", "user") >>,
    << Discovered("d", "user", "b", "org") >>,
    << Discovered("a", "repo", "", "user") >>,
    << Discovered("d", "bot", "a", "user") >>,
    << Discovered("d", "repo", "z", "user") >>,
    << Discovered("d", "org", "a", "user"), Discovered("e", "user", "c", "repo"),
       Discovered("f", "repo", "c", "repo"), Discovered("h", "repo", "b", "org") >> }

(* the seed_nodes sets passed to visualize_graph; {} is None *)
SeedSets == { {}, {"a"}, {"c", "d"} }

(* how far the drawing of one image gets *)
GraphOutcomes ==
  {"saved", "saved_fallback", "fail_subplots", "fail_draw", "fail_savefig",
   "fail_savefig_truncated"}
ClusterOutcomes == {"saved", "fail_draw", "fail_savefig_truncated"}

(* the owned-repo lists of the users are cleared once read *)
visualize_graph_Draining(seeds, disc) ==
  /\ pc = "done"
  /\ rpc = "idle"
  /\ seed_nodes' = seeds
  /\ discovered' = disc
  /\ rcall' = "visualize_graph"
  /\ LET gr == create_networkx_graph(graph, DictOrder(calls), disc) IN
       /\ G' = gr
       /\ IF DOMAIN gr.nodes = {}
          THEN /\ rlog' = Append(rlog, LogRecord("WARNING", 201))
               /\ rpc' = "returned"
          ELSE /\ rlog' = rlog
               /\ rpc' = "render"
  /\ graph' = [graph EXCEPT !.users =
                 [k \in DOMAIN @ |-> [@[k] EXCEPT !.owner_of = <<>>]]]
  /\ UNCHANGED <<components, ci, files, dir_made, rexc>>
  /\ UNCHANGED <<rows, calls, pc, exc, fvars, dvars, avars, xvars>>

(* lines 194-202 *)
visualize_graph(seeds, disc) ==
  /\ pc = "done"
  /\ rpc = "idle"
  /\ seed_nodes' = seeds
  /\ discovered' = disc
  /\ rcall' = "visualize_graph"
  /\ LET gr == create_networkx_graph(graph, DictOrder(calls), disc) IN
       /\ G' = gr
       /\ IF DOMAIN gr.nodes = {}
          THEN /\ rlog' = Append(rlog, LogRecord("WARNING", 201))
               /\ rpc' = "returned"
          ELSE /\ rlog' = rlog
               /\ rpc' = "render"
  /\ graph' = graph
  /\ UNCHANGED <<components, ci, files, dir_made, rexc>>
  /\ UNCHANGED <<rows, calls, pc, exc, fvars, dvars, avars, xvars>>

(* the records lines 209-334 log once the layout is done *)
LayoutLog(gr, fallback) ==
  <<LogRecord("INFO", 209)>>
  \o (IF Len(weakly_connected_components(gr)) > 1 THEN <<>>
      ELSE <<LogRecord("INFO", 308),
             LogRecord("INFO", IF fallback THEN 325 ELSE 322)>>)

(* lines 204-588: layout, drawing and savefig; any exception is logged     *)
(* and re-raised                                                           *)
visualize_graph_render(outcome) ==
  /\ rcall = "visualize_graph"
  /\ rpc = "render"
  /\ CASE outcome \in {"saved", "saved_fallback"} ->
            /\ files' = (output_path :> Image(DrawnNodes(G), DOMAIN G.edges, seed_nodes_list(G))) @@ files
            /\ rlog' = rlog \o LayoutLog(G, outcome = "saved_fallback")
                            \o <<LogRecord("INFO", 583), LogRecord("INFO", 584)>>
            /\ rpc' = "returned"
            /\ rexc' = rexc
       [] outcome = "fail_subplots" ->
            /\ files' = files
            /\ rlog' = Append(rlog, LogRecord("ERROR", 587))
            /\ rpc' = "raised"
            /\ rexc' = "Exception"
       [] outcome \in {"fail_draw", "fail_savefig"} ->
            /\ files' = files
            /\ rlog' = Append(rlog \o LayoutLog(G, FALSE), LogRecord("ERROR", 587))
            /\ rpc' = "raised"
            /\ rexc' = "Exception"
       [] outcome = "fail_savefig_truncated" ->
            /\ files' = (output_path :> Truncated) @@ files
            /\ rlog' = Append(rlog \o LayoutLog(G, FALSE), LogRecord("ERROR", 587))
            /\ rpc' = "raised"
            /\ rexc' = "Exception"
  /\ graph' = graph
  /\ UNCHANGED <<seed_nodes, discovered, rcall, G, components, ci, dir_made>>
  /\ UNCHANGED <<rows, calls, pc, exc, fvars, dvars, avars, xvars>>

(* the output directory is made before the graph is found empty *)
visualize_clusters_MkdirFirst ==
  /\ pc = "done"
  /\ rpc = "idle"
  /\ rcall' = "visualize_clusters"
  /\ dir_made' = TRUE
  /\ LET gr == create_networkx_graph(graph, DictOrder(calls), <<>>) IN
       /\ G' = gr
       /\ IF DOMAIN gr.nodes = {}
          THEN /\ rlog' = Append(rlog, LogRecord("WARNING", 616))
               /\ rpc' = "returned"
               /\ UNCHANGED components
          ELSE /\ components' = SortedByLenReverse(weakly_connected_components(gr))
               /\ rlog' = Append(rlog, LogRecord("INFO", 621))
               /\ rpc' = "cluster"
  /\ UNCHANGED <<seed_nodes, discovered, ci, files, rexc>>
  /\ UNCHANGED <<bvars, fvars, dvars, avars, xvars>>

(* lines 608-624 *)
visualize_clusters ==
  /\ pc = "done"
  /\ rpc = "idle"
  /\ rcall' = "visualize_clusters"
  /\ IF ~VISUALIZATION_AVAILABLE
     THEN /\ rlog' = Append(rlog, LogRecord("ERROR", 609))
          /\ rpc' = "returned"
          /\ UNCHANGED <<G, components, dir_made>>
     ELSE LET gr == create_networkx_graph(graph, DictOrder(calls), <<>>) IN
          /\ G' = gr
          /\ IF DOMAIN gr.nodes = {}
             THEN /\ rlog' = Append(rlog, LogRecord("WARNING", 616))
                  /\ rpc' = "returned"
                  /\ UNCHANGED <<components, dir_made>>
             ELSE /\ components' = SortedByLenReverse(weakly_connected_components(gr))
                  /\ rlog' = Append(rlog, LogRecord("INFO", 621))
                  /\ dir_made' = TRUE
                  /\ rpc' = "cluster"
  /\ graph' = graph
  /\ UNCHANGED <<seed_nodes, discovered, ci, files, rexc>>
  /\ UNCHANGED <<rows, calls, pc, exc, fvars, dvars, avars, xvars>>

(* lines 627-845: one pass of the loop over the components *)
visualize_clusters_render(outcome) ==
  /\ rcall = "visualize_clusters"
  /\ rpc = "cluster"
  /\ ci <= Len(components)
  /\ LET sub == subgraph(G, components[ci]) IN
     CASE outcome = "saved" ->
            /\ files' = (cluster_path(ci) :>
                          ([title |-> ClusterTitle(ci, Len(components), components[ci], sub)]
                           @@ Image(DOMAIN sub.nodes, DOMAIN sub.edges, seed_nodes_list(sub))))
                        @@ files
            /\ rlog' = Append(rlog, LogRecord("INFO", 841))
            /\ ci' = ci + 1
            /\ UNCHANGED <<rpc, rexc>>
       [] outcome = "fail_draw" ->
            /\ files' = files
            /\ rlog' = Append(rlog, LogRecord("ERROR", 844))
            /\ rpc' = "raised"
            /\ rexc' = "Exception"
            /\ ci' = ci
       [] outcome = "fail_savefig_truncated" ->
            /\ files' = (cluster_path(ci) :> Truncated) @@ files
            /\ rlog' = Append(rlog, LogRecord("ERROR", 844))
            /\ rpc' = "raised"
            /\ rexc' = "Exception"
            /\ ci' = ci
  /\ graph' = graph
  /\ UNCHANGED <<seed_nodes, discovered, rcall, G, components, dir_made>>
  /\ UNCHANGED <<rows, calls, pc, exc, fvars, dvars, avars, xvars>>

(* line 627: the components are exhausted *)
visualize_clusters_return ==
  /\ rcall = "visualize_clusters"
  /\ rpc = "cluster"
  /\ ci = Len(components) + 1
  /\ rpc' = "returned"
  /\ UNCHANGED <<seed_nodes, discovered, rcall, G, components, ci, files, dir_made, rlog, rexc>>
  /\ UNCHANGED <<bvars, fvars, dvars, avars, xvars>>

(* quickstart.py lines 166-192: build a graph, then render it *)
NextRender ==
  \/ \E row \in RenderRows : ProcessRow(row)
  \/ Return
  \/ \E seeds \in SeedSets, disc \in DiscoveredMaps : visualize_graph(seeds, disc)
  \/ \E outcome \in GraphOutcomes : visualize_graph_render(outcome)
  \/ visualize_clusters
  \/ \E outcome \in ClusterOutcomes : visualize_clusters_render(outcome)
  \/ visualize_clusters_return

SpecRender == Init /\ [][NextRender]_vars

----------------------------------------------------------------------------
(* df_to_pydantic_models on an empty frame *)

(* C11: when df_to_pydantic_models returns after folding no row at all,    *)
(* the users, orgs and repos mappings of the graph it returns are empty.   *)
C11_EmptyRowsEmptyGraph ==
  (pc = "done" /\ rows = <<>>) =>
     /\ DOMAIN graph.users = {}
     /\ DOMAIN graph.orgs = {}
     /\ DOMAIN graph.repos = {}

C11_Witness == pc = "done" /\ rows = <<>> /\ calls = <<>> /\ exc = "none"

----------------------------------------------------------------------------
(* Properties of the renderer *)

NoEntities(g) ==
  DOMAIN g.users = {} /\ DOMAIN g.orgs = {} /\ DOMAIN g.repos = {}

(* C12: once visualize_graph or visualize_clusters was called on a graph   *)
(* with no entities and no discovered nodes, the call has returned without *)
(* an exception, no image file and no output directory exist, and the one  *)
(* record logged is a warning.                                             *)
C12_EmptyGraphNoOp ==
  (rcall # "none" /\ NoEntities(graph) /\ discovered = <<>>) =>
     /\ rpc = "returned"
     /\ rexc = "none"
     /\ files = <<>>
     /\ ~dir_made
     /\ Len(rlog) = 1
     /\ rlog[1].level = "WARNING"

C12_Witness ==
  /\ rcall = "visualize_clusters"
  /\ NoEntities(graph)
  /\ rpc = "returned"
  /\ rlog = <<LogRecord("WARNING", 616)>>

(* a weakly-connected component of gr: a non-empty set of nodes no edge    *)
(* leaves, which no smaller such set splits                                *)
Closed(gr, C) ==
  \A e \in DOMAIN gr.edges : (e[1] \in C) <=> (e[2] \in C)
IsComponent(gr, C) ==
  /\ C # {}
  /\ C \subseteq DOMAIN gr.nodes
  /\ Closed(gr, C)
  /\ \A D \in SUBSET C : (D # {} /\ Closed(gr, D)) => D = C

EntityNames(g) == DOMAIN g.users \cup DOMAIN g.orgs \cup DOMAIN g.repos

(* C13: when visualize_clusters returns on a graph with entities, it has   *)
(* written one image per weakly-connected component, each to a path of its *)
(* own; an image shows exactly the nodes of one component and the edges    *)
(* with both endpoints in it, so every node and every edge is in exactly   *)
(* one image.                                                              *)
C13_OneImagePerComponent ==
  (rcall = "visualize_clusters" /\ rpc = "returned" /\ ~NoEntities(graph)) =>
     /\ Cardinality(DOMAIN files) = ci - 1
     /\ Cardinality(DOMAIN files) =
          Cardinality({ C \in SUBSET DOMAIN G.nodes : IsComponent(G, C) })
     /\ \A p \in DOMAIN files :
          /\ IsComponent(G, files[p].nodes)
          /\ files[p].edges = { e \in DOMAIN G.edges :
                                  e[1] \in files[p].nodes /\ e[2] \in files[p].nodes }
     /\ \A n \in EntityNames(graph) :
          Cardinality({ p \in DOMAIN files : n \in files[p].nodes }) = 1
     /\ \A e \in DOMAIN G.edges :
          Cardinality({ p \in DOMAIN files : e \in files[p].edges }) = 1

C13_Witness ==
  /\ rcall = "visualize_clusters"
  /\ rpc = "returned"
  /\ Cardinality(DOMAIN files) = 2
  /\ \E p \in DOMAIN files :
       Cardinality(files[p].nodes) = 2 /\ files[p].edges # {}

(* C15: once visualize_graph or visualize_clusters has raised, no image    *)
(* written by the call is left on disk, the images of the components drawn *)
(* before the failing one included.  No file exists before the call; a     *)
(* file that savefig left unfinished is not counted as an image.           *)
C15_NoImageAfterRaise ==
  rpc = "raised" => \A p \in DOMAIN files : files[p] = Truncated

(* C18: no step of create_networkx_graph, visualize_graph or               *)
(* visualize_clusters, whether the call goes on, returns or raises,        *)
(* changes the graph: the three mappings and every entity's id, owner and  *)
(* lists stay as they were.                                                *)
C18_RenderingReadOnly ==
  [][rcall' # "none" => graph' = graph]_vars

C18_Witness ==
  /\ rpc = "raised"
  /\ \E r \in DOMAIN graph.repos : graph.repos[r].owner # ""
  /\ \E u \in DOMAIN graph.users : graph.users[u].owner_of # <<>>

NodeType(n) == G.nodes[n].node_type

(* C19: in the digraph made by create_networkx_graph, for any graph and    *)
(* any discovered-node mapping, an owner_of or contributor_of edge starts  *)
(* at a user or org node and ends at a repo node, a member_of edge goes    *)
(* from a user node to an org node, and a parent_of edge from a repo node  *)
(* to a repo node.                                                         *)
C19_EdgeEndpointKinds ==
  rcall # "none" =>
    \A e \in DOMAIN G.edges :
      /\ G.edges[e] \in {"owner_of", "contributor_of"} =>
           NodeType(e[1]) \in {"user", "org"} /\ NodeType(e[2]) = "repo"
      /\ G.edges[e] = "member_of" =>
           NodeType(e[1]) = "user" /\ NodeType(e[2]) = "org"
      /\ G.edges[e] = "parent_of" =>
           NodeType(e[1]) = "repo" /\ NodeType(e[2]) = "repo"

(* C20: the digraph made by create_networkx_graph has one node per entity, *)
(* tagged with the kind of that entity, and one node per discovered entry  *)
(* whose name is not an entity's: the number of nodes is                   *)
(* |users| + |orgs| + |repos| plus the number of such discovered names.    *)
C20_NodeCount ==
  rcall # "none" =>
    /\ Cardinality(DOMAIN G.nodes) =
         Cardinality(DOMAIN graph.users) + Cardinality(DOMAIN graph.orgs)
         + Cardinality(DOMAIN graph.repos)
         + Cardinality({ i \in DOMAIN discovered :
                           discovered[i].node_id \notin EntityNames(graph) })
    /\ \A t \in EntityTypes : \A n \in DOMAIN Entities(t) :
         n \in DOMAIN G.nodes /\ NodeType(n) = t

----------------------------------------------------------------------------
(* utils/neo4jdownloader.py: retrieve_nodes and retrieve_edges, as         *)
(* extract_data calls them (quickstart.py lines 114-119)                   *)

(* quickstart.py line 20 *)
nodes == <<"user", "repo", "org">>

(* what a query gives: records, or an error of the driver or the database *)
NodeResults == { <<>>, <<1>> }
EdgeResults == { <<>>, <<[src |-> 1, dst |-> 1]>> }
QueryErrors == {"DriverError", "Neo4jError"}

Query(fn, arg, outcome) == [fn |-> fn, arg |-> arg, outcome |-> outcome]

(* the session the enclosing with statement holds *)
session == CHOOSE s \in open_sessions : TRUE

(* lines 79 / 93: with self.driver.session(...) as session, on entry *)
SessionEnter(open, n) == open \cup {n + 1}

(* the session is left open *)
SessionExit_Leak(open, s) == open

(* lines 79 / 93: the with statement closes the session when the block is  *)
(* left, by its end or by an exception                                     *)
SessionExit(open, s) == open \ {s}

(* line 79 *)
retrieve_nodes ==
  /\ dpc = "idle"
  /\ open_sessions' = SessionEnter(open_sessions, opened)
  /\ opened' = opened + 1
  /\ di' = 1
  /\ dpc' = "nodes_query"
  /\ UNCHANGED <<queries, dlog, dexc, ids_by_node, feats_by_node, edges_index, dret>>
  /\ UNCHANGED <<bvars, fvars, rvars, avars, xvars>>

(* lines 80-83 with get_nodes, lines 37-43: the query returns *)
get_nodes_ok(result) ==
  /\ dpc = "nodes_query"
  /\ di <= Len(nodes)
  /\ queries' = Append(queries, Query("get_nodes", nodes[di], "ok"))
  /\ ids_by_node' = (nodes[di] :> result) @@ ids_by_node
  /\ feats_by_node' =
       (nodes[di] :> [i \in DOMAIN result |-> [name |-> "n"]]) @@ feats_by_node
  /\ di' = di + 1
  /\ UNCHANGED <<dpc, open_sessions, opened, dlog, dexc, edges_index, dret>>
  /\ UNCHANGED <<bvars, fvars, rvars, avars, xvars>>

(* get_nodes lines 44-46: the query raises; the error is logged and        *)
(* raised again                                                            *)
get_nodes_error(e) ==
  /\ dpc = "nodes_query"
  /\ di <= Len(nodes)
  /\ queries' = Append(queries, Query("get_nodes", nodes[di], e))
  /\ dlog' = Append(dlog, [level |-> "ERROR", query |-> Len(queries) + 1])
  /\ dexc' = e
  /\ dpc' = "nodes_failing"
  /\ UNCHANGED <<di, open_sessions, opened, ids_by_node, feats_by_node, edges_index, dret>>
  /\ UNCHANGED <<bvars, fvars, rvars, avars, xvars>>

(* line 79: the exception leaves the with block and retrieve_nodes *)
retrieve_nodes_unwind ==
  /\ dpc = "nodes_failing"
  /\ open_sessions' = SessionExit(open_sessions, session)
  /\ dpc' = "raised"
  /\ UNCHANGED <<di, opened, queries, dlog, dexc, ids_by_node, feats_by_node,
                 edges_index, dret>>
  /\ UNCHANGED <<bvars, fvars, rvars, avars, xvars>>

(* lines 79-84: the loop ends, the with block is left, ids and feats are   *)
(* returned                                                                *)
retrieve_nodes_return ==
  /\ dpc = "nodes_query"
  /\ di = Len(nodes) + 1
  /\ open_sessions' = SessionExit(open_sessions, session)
  /\ dret' = "nodes"
  /\ dpc' = "nodes_returned"
  /\ UNCHANGED <<di, opened, queries, dlog, dexc, ids_by_node, feats_by_node,
                 edges_index>>
  /\ UNCHANGED <<bvars, fvars, rvars, avars, xvars>>

(* lines 87-88 *)
retrieve_edges ==
  /\ dpc = "nodes_returned"
  /\ di' = 1
  /\ dpc' = "edges_open"
  /\ UNCHANGED <<open_sessions, opened, queries, dlog, dexc, ids_by_node,
                 feats_by_node, edges_index, dret>>
  /\ UNCHANGED <<bvars, fvars, rvars, avars, xvars>>

(* lines 89-93: the next variant; a session is opened for it *)
retrieve_edges_session ==
  /\ dpc = "edges_open"
  /\ di <= Len(SchemaOrder)
  /\ open_sessions' = SessionEnter(open_sessions, opened)
  /\ opened' = opened + 1
  /\ dpc' = "edges_query"
  /\ UNCHANGED <<di, queries, dlog, dexc, ids_by_node, feats_by_node, edges_index, dret>>
  /\ UNCHANGED <<bvars, fvars, rvars, avars, xvars>>

(* lines 94-101 with get_edges, lines 69-74: the query returns and the     *)
(* with block is left                                                      *)
get_edges_ok(result) ==
  /\ dpc = "edges_query"
  /\ queries' = Append(queries, Query("get_edges", SchemaOrder[di], "ok"))
  /\ edges_index' = (SchemaOrder[di] :> result) @@ edges_index
  /\ open_sessions' = SessionExit(open_sessions, session)
  /\ di' = di + 1
  /\ dpc' = "edges_open"
  /\ UNCHANGED <<opened, dlog, dexc, ids_by_node, feats_by_node, dret>>
  /\ UNCHANGED <<bvars, fvars, rvars, avars, xvars>>

(* get_edges line 69: the query raises; get_edges has no except clause *)
get_edges_error(e) ==
  /\ dpc = "edges_query"
  /\ queries' = Append(queries, Query("get_edges", SchemaOrder[di], e))
  /\ dexc' = e
  /\ dpc' = "edges_failing"
  /\ UNCHANGED <<di, open_sessions, opened, dlog, ids_by_node, feats_by_node,
                 edges_index, dret>>
  /\ UNCHANGED <<bvars, fvars, rvars, avars, xvars>>

(* line 93: the exception leaves the with block and retrieve_edges *)
retrieve_edges_unwind ==
  /\ dpc = "edges_failing"
  /\ open_sessions' = SessionExit(open_sessions, session)
  /\ dpc' = "raised"
  /\ UNCHANGED <<di, opened, queries, dlog, dexc, ids_by_node, feats_by_node,
                 edges_index, dret>>
  /\ UNCHANGED <<bvars, fvars, rvars, avars, xvars>>

(* line 102 *)
retrieve_edges_return ==
  /\ dpc = "edges_open"
  /\ di = Len(SchemaOrder) + 1
  /\ dret' = "edges"
  /\ dpc' = "edges_returned"
  /\ UNCHANGED <<di, open_sessions, opened, queries, dlog, dexc, ids_by_node,
                 feats_by_node, edges_index>>
  /\ UNCHANGED <<bvars, fvars, rvars, avars, xvars>>

(* Neo4JDownloader.close, lines 14-17: self.driver.close(); n counts the   *)
(* calls                                                                   *)
close(n) == n + 1

(* quickstart.py lines 114-117: connect_neo4j() made the downloader and    *)
(* the try block is entered                                                *)
extract_data ==
  /\ xpc = "idle"
  /\ dpc = "idle"
  /\ xpc' = "try"
  /\ UNCHANGED <<driver_closed, xret>>
  /\ UNCHANGED <<bvars, fvars, rvars, dvars, avars>>

(* the driver is closed only when both retrievals returned *)
extract_data_finally_OnSuccessOnly ==
  /\ xpc = "try"
  /\ dpc \in {"raised", "edges_returned"}
  /\ IF dpc = "raised"
     THEN /\ xpc' = "raised"
          /\ UNCHANGED <<driver_closed, xret>>
     ELSE /\ driver_closed' = close(driver_closed)
          /\ xret' = <<[nodes_ids |-> ids_by_node, nodes_features |-> feats_by_node,
                       edges_indices |-> edges_index]>>
          /\ xpc' = "returned"
  /\ UNCHANGED <<bvars, fvars, rvars, dvars, avars>>

(* quickstart.py lines 120-122: the try block is left, by the return at    *)
(* line 120 or by the exception of a retrieval; finally closes the         *)
(* downloader, then the value is returned or the exception goes on         *)
extract_data_finally ==
  /\ xpc = "try"
  /\ dpc \in {"raised", "edges_returned"}
  /\ driver_closed' = close(driver_closed)
  /\ IF dpc = "raised"
     THEN /\ xpc' = "raised"
          /\ xret' = xret
     ELSE /\ xret' = <<[nodes_ids |-> ids_by_node, nodes_features |-> feats_by_node,
                       edges_indices |-> edges_index]>>
          /\ xpc' = "returned"
  /\ UNCHANGED <<bvars, fvars, rvars, dvars, avars>>

NextDownload ==
  \/ extract_data
  \/ extract_data_finally
  \/ retrieve_nodes
  \/ \E result \in NodeResults : get_nodes_ok(result)
  \/ \E e \in QueryErrors : get_nodes_error(e)
  \/ retrieve_nodes_unwind
  \/ retrieve_nodes_return
  \/ retrieve_edges
  \/ retrieve_edges_session
  \/ \E result \in EdgeResults : get_edges_ok(result)
  \/ \E e \in QueryErrors : get_edges_error(e)
  \/ retrieve_edges_unwind
  \/ retrieve_edges_return

SpecDownload == Init /\ [][NextDownload]_vars

----------------------------------------------------------------------------
(* Properties of the downloader *)

(* C16: every session retrieve_nodes or retrieve_edges opened is closed    *)
(* when the call has returned or has let an error out, a query failing     *)
(* midway included, and at no time are two sessions open.                  *)
C16_SessionsClosed ==
  /\ Cardinality(open_sessions) <= 1
  /\ dpc \in {"nodes_returned", "edges_open", "edges_returned", "raised"}
       => open_sessions = {}

C16_Witness ==
  /\ dpc = "raised"
  /\ opened = 3
  /\ Len(queries) = 5
  /\ open_sessions = {}

(* C17: when retrieve_nodes or retrieve_edges has let a query error out,   *)
(* the error was logged and is the exception raised, the failed query is   *)
(* the last one run and was run once, and the failing call returned        *)
(* nothing.                                                                *)
C17_ErrorLoggedAndRaised ==
  dpc = "raised" =>
    /\ dexc \in QueryErrors
    /\ queries[Len(queries)].outcome = dexc
    /\ \A i \in 1..(Len(queries) - 1) : queries[i].outcome = "ok"
    /\ dlog = <<[level |-> "ERROR", query |-> Len(queries)]>>
    /\ dret = (IF queries[Len(queries)].fn = "get_nodes" THEN "none" ELSE "nodes")

----------------------------------------------------------------------------
(* Seed nodes *)

(* C21: in the image visualize_graph saved, every node of the digraph      *)
(* whose name is in the seed_nodes set passed is among the nodes drawn as  *)
(* seeds, with the square shape.                                           *)
C21_SeedsDrawnAsSeeds ==
  (rcall = "visualize_graph" /\ rpc = "returned" /\ output_path \in DOMAIN files) =>
     \A n \in seed_nodes \cap DOMAIN G.nodes : n \in files[output_path].seeds

----------------------------------------------------------------------------
(* Order of the fold *)

(* C23: after the build completes, a repo that several owner_of rows       *)
(* target has as owner the source of the last of these rows in row order,  *)
(* whatever the earlier ones named.                                        *)
C23_LastWriterWins ==
  pc = "done" =>
    \A r \in DOMAIN graph.repos :
      Cardinality(OwnerRows(r)) >= 2 =>
        graph.repos[r].owner = rows[LastOf(OwnerRows(r))].source

C23_Witness ==
  /\ pc = "done"
  /\ \E r \in DOMAIN graph.repos :
       /\ Cardinality(OwnerRows(r)) >= 2
       /\ \E i \in OwnerRows(r) : rows[i].source # graph.repos[r].owner

IsPrefix(a, b) == Len(a) <= Len(b) /\ SubSeq(b, 1, Len(a)) = a

ListFields(m) ==
  CASE m = "users" -> {"owner_of", "contributor_of"}
    [] m = "orgs" -> {"members", "owner_of", "contributor_of"}
    [] m = "repos" -> {"contributors", "parent_of"}

(* what one step may do to the entities that exist before it: keep every   *)
(* key, name and type, extend lists at their end, give an id a nonzero     *)
(* value of the folded row                                                 *)
KeptAppendedRefreshed ==
  \A m \in {"users", "orgs", "repos"} :
    /\ DOMAIN graph[m] \subseteq DOMAIN graph'[m]
    /\ \A k \in DOMAIN graph[m] :
         /\ graph'[m][k].name = graph[m][k].name
         /\ graph'[m][k].type = graph[m][k].type
         /\ \A f \in ListFields(m) : IsPrefix(graph[m][k][f], graph'[m][k][f])
         /\ graph'[m][k].id # graph[m][k].id =>
              /\ rows' # rows
              /\ graph'[m][k].id # 0
              /\ graph'[m][k].id \in {Folded.source_id, Folded.target_id}

(* C24 as stated: no step of the fold removes a key of users, orgs or      *)
(* repos, and all a step does to an entity that exists already is append   *)
(* to the end of its lists and refresh its id.                             *)
C24_OnlyAppendAndRefresh ==
  [][/\ KeptAppendedRefreshed
     /\ \A r \in DOMAIN graph.repos : graph'.repos[r].owner = graph.repos[r].owner]_vars

(* C24 amended: as above, and the owner field of an existing repo changes  *)
(* only to the source of an owner_of row that targets the repo.            *)
C24_AppendRefreshSetOwner ==
  [][/\ KeptAppendedRefreshed
     /\ \A r \in DOMAIN graph.repos :
          graph'.repos[r].owner # graph.repos[r].owner =>
            /\ rows' # rows
            /\ Folded.property = "owner_of"
            /\ Folded.target = r
            /\ graph'.repos[r].owner = Folded.source]_vars

C24_Witness ==
  /\ Len(rows) = 2
  /\ \E r \in DOMAIN graph.repos :
       /\ Cardinality(OwnerRows(r)) = 2
       /\ rows[1].source # rows[2].source
       /\ graph.repos[r].owner = rows[2].source
       /\ rows[2].target_id \notin {0, rows[1].target_id}
       /\ graph.repos[r].id = rows[2].target_id


----------------------------------------------------------------------------
(* ossinsight-quickstart/quickstart.py: the fetch functions and the script *)

(* The final status of a response as requests hands it to the caller: a
   success, a client error, a server error. *)
Statuses == {200, 404, 500}

(* res.json(): a body with a "data" entry holding rows, holding nothing, or
   a body without a "data" entry *)
Payloads == {"rows", "empty", "no_data"}

(* The metric_type values get_geo_distribution is called with: its default,
   another key of its endpoints dict, a value that is not a key *)
MetricTypes == {"pr_creators", "stargazers", "bogus"}

FetchFunctions ==
  { "get_repo_info", "get_star_history", "get_commit_time_distribution",
    "get_pr_overview", "get_pr_size_history", "get_pr_merge_time",
    "get_issue_overview", "get_issue_response_time", "get_issue_opened_closed",
    "get_geo_distribution", "get_company_distribution",
    "get_trending_pr_contributors", "get_trending_issue_contributors",
    "get_issue_creators_company" }

(* the fetches of the script's try block, in the order of the source *)
MainFetches ==
  << "get_repo_info", "get_star_history", "get_commit_time_distribution",
     "get_pr_overview", "get_pr_size_history", "get_pr_merge_time",
     "get_issue_response_time", "get_issue_opened_closed",
     "get_geo_distribution", "get_company_distribution" >>

raise_for_status_Never(status) == "none"

(* Response.raise_for_status: HTTPError for a 4xx or 5xx status *)
raise_for_status(status) ==
  IF 400 <= status /\ status < 600 THEN "HTTPError" ELSE "none"

(* url of get_geo_distribution: endpoints.get(metric_type) *)
endpoints(metric_type) ==
  IF metric_type \in {"pr_creators", "stargazers", "issue_creators"}
  THEN metric_type ELSE "None"

(* One call of a fetch function: the GETs it issues, the exception it raises
   and the value it returns. call numbers the call. *)
Fetch(call, fn, metric_type, status, payload) ==
  LET get == [call |-> call, fn |-> fn, status |-> status]
      e   == raise_for_status(status)
  IN  IF fn = "get_geo_distribution" /\ endpoints(metric_type) = "None"
      THEN [gets |-> <<>>, exc |-> "none",
            ret |-> <<[call |-> call, fn |-> fn, data |-> "empty"]>>]
      ELSE IF e # "none"
      THEN [gets |-> <<get>>, exc |-> e, ret |-> <<>>]
      ELSE IF payload = "no_data"
      THEN [gets |-> <<get>>, exc |-> "KeyError", ret |-> <<>>]
      ELSE [gets |-> <<get>>, exc |-> "none",
            ret |-> <<[call |-> call, fn |-> fn, data |-> payload]>>]

(* a fetch function is called on its own *)
fetch_call(fn, metric_type, status, payload) ==
  /\ apc = "idle"
  /\ LET r == Fetch(1, fn, metric_type, status, payload)
     IN  /\ http' = http \o r.gets
         /\ results' = results \o r.ret
         /\ aexc' = r.exc
         /\ apc' = IF r.exc = "none" THEN "returned" ELSE "raised"
  /\ UNCHANGED <<ai>>
  /\ UNCHANGED <<bvars, fvars, rvars, dvars, xvars>>

(* python quickstart.py: the script enters its try block *)
main ==
  /\ apc = "idle"
  /\ apc' = "main"
  /\ UNCHANGED <<ai, http, results, aexc>>
  /\ UNCHANGED <<bvars, fvars, rvars, dvars, xvars>>

(* the next fetch of the try block; an exception leaves the block for the
   handler, which prints it *)
main_fetch(status, payload) ==
  /\ apc = "main"
  /\ ai <= Len(MainFetches)
  /\ LET r == Fetch(ai, MainFetches[ai], "pr_creators", status, payload)
     IN  /\ http' = http \o r.gets
         /\ results' = results \o r.ret
         /\ aexc' = r.exc
         /\ apc' = IF r.exc = "none" THEN "main" ELSE "failed"
         /\ ai' = IF r.exc = "none" THEN ai + 1 ELSE ai
  /\ UNCHANGED <<bvars, fvars, rvars, dvars, xvars>>

(* the try block ran to its end *)
main_end ==
  /\ apc = "main"
  /\ ai > Len(MainFetches)
  /\ apc' = "done"
  /\ UNCHANGED <<ai, http, results, aexc>>
  /\ UNCHANGED <<bvars, fvars, rvars, dvars, xvars>>

NextRest ==
  \/ \E fn \in FetchFunctions, m \in MetricTypes, s \in Statuses, p \in Payloads :
        fetch_call(fn, m, s, p)
  \/ main
  \/ \E s \in Statuses, p \in Payloads : main_fetch(s, p)
  \/ main_end

SpecRest == Init /\ [][NextRest]_vars

(* C22: every call of a fetch function issues at most one GET; a GET answered
   with a status outside 200..299 is the last GET issued, its call raised and
   returned no data, and the script fetched nothing after it. *)
C22_OneGetNoRetryFailFast ==
  /\ \A i, j \in DOMAIN http : http[i].call = http[j].call => i = j
  /\ \A i \in DOMAIN http :
       http[i].status \notin 200..299 =>
         /\ i = Len(http)
         /\ aexc # "none"
         /\ apc \in {"raised", "failed"}
         /\ \A k \in DOMAIN results : results[k].call # http[i].call

C22_Witness ==
  /\ apc = "failed"
  /\ Len(http) = 3
  /\ http[3].status = 500
  /\ Len(results) = 2


(* the relationship kinds by <<parent type, child type>> *)
KindByTypes ==
  [p \in { <<"user", "repo">>, <<"org", "repo">>, <<"user", "org">>,
           <<"org", "user">>, <<"repo", "user">>, <<"repo", "repo">> } |->
     CASE p[2] = "repo" /\ p[1] \in {"user", "org"} -> "owner_of"
       [] p[2] = "repo" -> "parent_of"
       [] p[1] = "repo" -> "contributor_of"
       [] OTHER -> "member_of"]

(* C25: once visualize_graph has materialized its digraph, every discovered
   entry whose node and non-empty parent are nodes of the digraph has the edge
   parent -> child, labelled by the entry's <<parent type, child type>> pair
   ("unknown" for a pair without a rule); an entry whose parent is empty or is
   not a node has no such edge. *)
C25_DiscoveredEdges ==
  (rcall = "visualize_graph" /\ rpc # "idle") =>
    \A i \in DOMAIN discovered :
      LET d == discovered[i]
          e == <<d.parent_id, d.node_id>>
          t == <<d.parent_type, d.node_type>>
      IN  IF /\ d.node_id \in DOMAIN G.nodes
             /\ d.parent_id # ""
             /\ d.parent_id \in DOMAIN G.nodes
          THEN /\ e \in DOMAIN G.edges
               /\ G.edges[e] = IF t \in DOMAIN KindByTypes THEN KindByTypes[t]
                               ELSE "unknown"
          ELSE e \notin DOMAIN G.edges

C25_Witness ==
  /\ rcall = "visualize_graph"
  /\ rpc = "returned"
  /\ <<"c", "f">> \in DOMAIN G.edges
  /\ G.edges[<<"c", "f">>] = "parent_of"
  /\ <<"a", "d">> \in DOMAIN G.edges
  /\ G.edges[<<"a", "d">>] = "member_of"


(* C26: the cluster images are numbered from 1 in non-increasing order of
   node count, and the title of the image numbered idx gives idx and the
   numbers of nodes and of edges of the component it shows, the edges being
   those of the digraph with both ends in the component. *)
C26_LargestFirstTitled ==
  rcall = "visualize_clusters" =>
    \A idx \in 1..Len(components) :
      (cluster_path(idx) \in DOMAIN files /\ files[cluster_path(idx)] # Truncated) =>
        LET img == files[cluster_path(idx)]
            nxt == cluster_path(idx + 1)
        IN  /\ IsComponent(G, img.nodes)
            /\ img.title.idx = idx
            /\ img.title.nodes = Cardinality(img.nodes)
            /\ img.title.edges =
                 Cardinality({ e \in DOMAIN G.edges :
                                 e[1] \in img.nodes /\ e[2] \in img.nodes })
            /\ (nxt \in DOMAIN files /\ files[nxt] # Truncated) =>
                 Cardinality(img.nodes) >= Cardinality(files[nxt].nodes)
            /\ \A j \in 1..(idx - 1) : cluster_path(j) \in DOMAIN files

(* the component found first is the smaller one and is drawn second *)
C26_Witness ==
  /\ rcall = "visualize_clusters"
  /\ rpc = "returned"
  /\ G.order = <<"c", "a", "b">>
  /\ cluster_path(2) \in DOMAIN files
  /\ files[cluster_path(1)].title.nodes = 2
  /\ files[cluster_path(1)].title.edges = 1
  /\ files[cluster_path(2)].nodes = {"c"}


(* C27: a step of neo4j_to_dataframe over a variant with at least one edge,
   whose source or target type is no key of nodes_ids, raises nothing and
   appends one row per edge (with the names type_id for that type). *)
C27_MissingTypeSynthetic ==
  [][ (/\ fpc = "loop"
       /\ vi <= Len(SchemaOrder)
       /\ SchemaOrder[vi] \in DOMAIN edges_indices'
       /\ SchemaOrder[vi] \notin DOMAIN edges_indices
       /\ edges_indices'[SchemaOrder[vi]] # <<>>
       /\ Len(edges_indices'[SchemaOrder[vi]][1]) > 0
       /\ LET rel_info == relationships[SchemaOrder[vi][1]][SchemaOrder[vi][2]]
          IN  \/ rel_info.source \notin DOMAIN nodes_ids
              \/ rel_info.target \notin DOMAIN nodes_ids)
      => /\ fexc' = "none"
         /\ fpc' = "loop"
         /\ Len(df') = Len(df) + Len(edges_indices'[SchemaOrder[vi]][1]) ]_vars


(* the row has the endpoint types of a variant of its kind in the schema *)
AgreesWithSchema(row) ==
  /\ row.property \in DOMAIN relationships
  /\ \E v \in DOMAIN relationships[row.property] :
       /\ relationships[row.property][v].source = row.source_type
       /\ relationships[row.property][v].target = row.target_type

(* C28: when every folded row has the endpoint types of a schema variant and
   no discovered nodes are passed, the ordered pairs joined by an edge of the
   materialized digraph are exactly the (source, target) pairs of the rows. *)
C28_EdgesAreRowPairs ==
  (/\ rcall # "none"
   /\ discovered = <<>>
   /\ \A i \in DOMAIN rows : AgreesWithSchema(rows[i]))
    => DOMAIN G.edges = { <<rows[i].source, rows[i].target>> : i \in DOMAIN rows }

C28_Witness ==
  /\ rcall = "visualize_graph"
  /\ discovered = <<>>
  /\ Len(rows) = 2
  /\ rows[1].property = "parent_of" /\ rows[1].source # rows[1].target
  /\ rows[2].property = "owner_of" /\ rows[2].source_type = "user"
  /\ \A i \in DOMAIN rows : AgreesWithSchema(rows[i])
  /\ Cardinality(DOMAIN G.edges) = 2


----------------------------------------------------------------------------
(* Owners and contributors of one repository, built and rendered *)

(* rows of users a and d and of org c about the repos b and e: no name is
   used for two kinds *)
LabelRows ==
  { DbRow("owner_of", "user", "a", "repo", "b"),
    DbRow("owner_of", "org", "c", "repo", "b"),
    DbRow("contributor_of", "user", "a", "repo", "b"),
    DbRow("contributor_of", "org", "c", "repo", "b"),
    DbRow("contributor_of", "user", "d", "repo", "e"),
    DbRow("parent_of", "repo", "b", "repo", "e") }

(* quickstart.py lines 166-192 on these rows: no seed, no discovered node *)
NextLabel ==
  \/ \E row \in LabelRows : ProcessRowUpTo(row, MaxLabelRows)
  \/ Return
  \/ visualize_graph({}, <<>>)
  \/ \E outcome \in GraphOutcomes : visualize_graph_render(outcome)
  \/ visualize_clusters
  \/ \E outcome \in ClusterOutcomes : visualize_clusters_render(outcome)
  \/ visualize_clusters_return

SpecLabel == Init /\ [][NextLabel]_vars

(* no name is a key of two of the three mappings *)
DistinctAcrossKinds(g) ==
  /\ DOMAIN g.users \cap DOMAIN g.orgs = {}
  /\ DOMAIN g.users \cap DOMAIN g.repos = {}
  /\ DOMAIN g.orgs \cap DOMAIN g.repos = {}

(* C29: in the digraph materialized without discovered nodes from a graph
   whose names are distinct across kinds, every entity e in the contributors
   of a repo r has the edge e -> r, labelled owner_of when r.owner is e and
   contributor_of when it is not, whatever e's owner_of list holds. *)
C29_ContributorEdgeLabel ==
  (rcall # "none" /\ discovered = <<>> /\ DistinctAcrossKinds(graph)) =>
    \A r \in DOMAIN graph.repos :
      \A e \in Range(graph.repos[r].contributors) :
        /\ <<e, r>> \in DOMAIN G.edges
        /\ G.edges[<<e, r>>] = IF graph.repos[r].owner = e THEN "owner_of"
                               ELSE "contributor_of"

(* a owns b by an earlier row, c by a later one, and a contributes to b *)
C29_Witness ==
  /\ rcall # "none"
  /\ "a" \in DOMAIN graph.users /\ "b" \in DOMAIN graph.repos
  /\ "b" \in Range(graph.users["a"].owner_of)
  /\ "a" \in Range(graph.repos["b"].contributors)
  /\ graph.repos["b"].owner = "c"
  /\ G.edges[<<"a", "b">>] = "contributor_of"
  /\ G.edges[<<"c", "b">>] = "owner_of"


(* the get_nodes queries that returned *)
NodesDone == { i \in DOMAIN queries : queries[i].fn = "get_nodes" /\ queries[i].outcome = "ok" }

(* C30: extract_data has closed the driver of its downloader once when it is
   left, by return or by exception, and not before; retrieve_edges runs no
   query before retrieve_nodes has returned the ids of every node type; when
   a retrieval raised, extract_data raises that error and returns nothing,
   and when both returned it returns what they retrieved. *)
C30_DriverClosedOnce ==
  /\ xpc \in {"returned", "raised"} => driver_closed = 1
  /\ xpc \in {"idle", "try"} => driver_closed = 0
  /\ (dpc \in {"edges_open", "edges_query", "edges_failing", "edges_returned"}
      \/ \E i \in DOMAIN queries : queries[i].fn = "get_edges")
       => /\ Cardinality(NodesDone) = Len(nodes)
          /\ DOMAIN ids_by_node = Range(nodes)
          /\ \A i \in NodesDone : \A j \in DOMAIN queries :
               queries[j].fn = "get_edges" => i < j
  /\ xpc = "raised" => (dexc # "none" /\ xret = <<>>)
  /\ xpc = "returned" =>
       /\ dexc = "none"
       /\ Len(xret) = 1
       /\ DOMAIN xret[1].nodes_ids = Range(nodes)
       /\ DOMAIN xret[1].edges_indices = Range(SchemaOrder)

(* extract_data was left with the error of retrieve_edges *)
C30_Witness ==
  /\ xpc = "raised"
  /\ driver_closed = 1
  /\ \E i \in DOMAIN queries : queries[i].fn = "get_edges" /\ queries[i].outcome # "ok"

====
